---------------------------- MODULE Spec2Model ----------------------------
(***************************************************************************)
(* A model of the wieringa-roofing tiling generator.                       *)
(*                                                                         *)
(*   src/gentiling2.py                    substitution grammar, dedup,     *)
(*                                        height constraints, main()       *)
(*   src/src/wieringa_roofing/gentiling.py  QQuad: exact arithmetic in     *)
(*                                        the field Q(sqrt 5)              *)
(*                                                                         *)
(* Numbers.  gentiling2.py computes with floats.  Every angle it uses is a *)
(* multiple of 18 degrees and every length is a power of the golden ratio  *)
(* phi = 2 sin 54, so every coordinate it computes is, up to rounding, an  *)
(* element of the ring Z[xi], xi = exp(i pi/10).  The model computes in    *)
(* that ring: a vector <<c0..c7>> stands for c0 + c1 xi + .. + c7 xi^7     *)
(* (xi^8 = xi^6 - xi^4 + xi^2 - 1), the complex number x + iy standing for *)
(* the point (x, y), relative to the frame of the seed transform.  Where   *)
(* the code compares floats (closest_point), the vector is evaluated to    *)
(* world coordinates in fixed point, 10^5 steps to one world unit.         *)
(***************************************************************************)
EXTENDS Integers, Sequences, FiniteSets, TLC

\* ------------------------------------------------------------------ bounds

\* subdivision passes explored by SpecGrow  (main: steps = 5)
MaxSteps == 4
\* subdivision passes explored by the whole pipeline, Spec
MaxDepth == 2

\* ---------------------------------------------------------------- Z[xi]

Zero == <<0, 0, 0, 0, 0, 0, 0, 0>>
One == <<1, 0, 0, 0, 0, 0, 0, 0>>

VAdd(p, q) ==
  <<p[1] + q[1], p[2] + q[2], p[3] + q[3], p[4] + q[4],
    p[5] + q[5], p[6] + q[6], p[7] + q[7], p[8] + q[8]>>
VNeg(p) ==
  <<0 - p[1], 0 - p[2], 0 - p[3], 0 - p[4],
    0 - p[5], 0 - p[6], 0 - p[7], 0 - p[8]>>

\* XiPow[r + 1] is xi^r, for r in 0..19 (xi^10 = -1)
XiPow ==
  <<<<1, 0, 0, 0, 0, 0, 0, 0>>,
    <<0, 1, 0, 0, 0, 0, 0, 0>>,
    <<0, 0, 1, 0, 0, 0, 0, 0>>,
    <<0, 0, 0, 1, 0, 0, 0, 0>>,
    <<0, 0, 0, 0, 1, 0, 0, 0>>,
    <<0, 0, 0, 0, 0, 1, 0, 0>>,
    <<0, 0, 0, 0, 0, 0, 1, 0>>,
    <<0, 0, 0, 0, 0, 0, 0, 1>>,
    <<-1, 0, 1, 0, -1, 0, 1, 0>>,
    <<0, -1, 0, 1, 0, -1, 0, 1>>,
    <<-1, 0, 0, 0, 0, 0, 0, 0>>,
    <<0, -1, 0, 0, 0, 0, 0, 0>>,
    <<0, 0, -1, 0, 0, 0, 0, 0>>,
    <<0, 0, 0, -1, 0, 0, 0, 0>>,
    <<0, 0, 0, 0, -1, 0, 0, 0>>,
    <<0, 0, 0, 0, 0, -1, 0, 0>>,
    <<0, 0, 0, 0, 0, 0, -1, 0>>,
    <<0, 0, 0, 0, 0, 0, 0, -1>>,
    <<1, 0, -1, 0, 1, 0, -1, 0>>,
    <<0, 1, 0, -1, 0, 1, 0, -1>>>>

\* the unit vector at angle a * 18 degrees: (cos, sin) of it
Dir(a) == XiPow[(a % 20) + 1]

\* coefficient c of p * xi^r
RotCoef(p, r, c) ==
  p[1] * Dir(r)[c] + p[2] * Dir(r + 1)[c] + p[3] * Dir(r + 2)[c]
    + p[4] * Dir(r + 3)[c] + p[5] * Dir(r + 4)[c] + p[6] * Dir(r + 5)[c]
    + p[7] * Dir(r + 6)[c] + p[8] * Dir(r + 7)[c]

\* p * xi^r : the rotation [[cos, -sin], [sin, cos]] by r * 18 degrees
Rot(p, r) ==
  <<RotCoef(p, r, 1), RotCoef(p, r, 2), RotCoef(p, r, 3), RotCoef(p, r, 4),
    RotCoef(p, r, 5), RotCoef(p, r, 6), RotCoef(p, r, 7), RotCoef(p, r, 8)>>

\* p / phi, with 1/phi = phi - 1 = xi^4 - xi^6
InvPhi(p) ==
  <<p[3] - p[7],
    p[4] - p[8],
    0 - p[3] + p[5] + p[7],
    0 - p[4] + p[6] + p[8],
    p[1] + p[3] - p[5],
    p[2] + p[4] - p[6],
    0 - p[1] + p[5],
    0 - p[2] + p[6]>>
\* p * phi
Phi(p) == VAdd(p, InvPhi(p))

\* p * phi^(-n)
RECURSIVE Scale(_, _)
Scale(p, n) == IF n = 0 THEN p ELSE Scale(InvPhi(p), n - 1)

\* -------------------------------------------------------------- transforms

\* mktransform(x, y, theta, scale): t is the translation (x, y), rot is theta
\* in units of 18 degrees, n says that scale = phi^(-n); the subscale of
\* subdivide, 1 / (2 sin 54), is 1/phi.
mktransform(t, rot, n) == [t |-> t, rot |-> rot, n |-> n]

\* the matrix product P * C of two such transforms
Compose(P, C) ==
  [t |-> VAdd(P.t, Scale(Rot(C.t, P.rot), P.n)),
   rot |-> (P.rot + C.rot) % 20,
   n |-> P.n + C.n]

\* ------------------------------------------------------------------ indices

IndexRange == 1..4

index_opp_swapped(i) == <<3, 4, 2, 1>>[i]
index_opp_reversed(i) == <<4, 3, 2, 1>>[i]
index_opp(i) == <<3, 4, 1, 2>>[i]

index_nei(i) == <<2, 3, 2, 3>>[i]

\* -------------------------------------------------------------------- tiles

Tile(thick, index, transform) ==
  [thick |-> thick, index |-> index, transform |-> transform,
   point_indices |-> <<>>]

\* Tile.get_point: the transform applied to the local point l
get_point(tile, l) ==
  VAdd(tile.transform.t,
       Scale(Rot(l, tile.transform.rot), tile.transform.n))

\* the local corners: thick (bot, right, top, left) with c, s = cos, sin 54;
\* thin (right, top, left, bottom) with c, s = cos, sin 72
ThickCorners == <<Zero, Dir(3), Phi(Dir(5)), Dir(7)>>
ThinCorners == <<Zero, Dir(6), VNeg(InvPhi(One)), Dir(14)>>
LocalCorners(thick) == IF thick THEN ThickCorners ELSE ThinCorners

\* Tile.get_points_with_height: the corners with their symbolic heights.  The
\* heights are kept doubled, i_mid = (i + index_opp(i)) / 2 being a true
\* division in the code.
get_points_with_height(tile) ==
  <<[xy |-> get_point(tile, LocalCorners(tile.thick)[1]),
     z2 |-> 2 * tile.index],
    [xy |-> get_point(tile, LocalCorners(tile.thick)[2]),
     z2 |-> tile.index + index_opp(tile.index)],
    [xy |-> get_point(tile, LocalCorners(tile.thick)[3]),
     z2 |-> 2 * index_opp(tile.index)],
    [xy |-> get_point(tile, LocalCorners(tile.thick)[4]),
     z2 |-> tile.index + index_opp(tile.index)]>>

\* "[(x, y) for (x, y, _) in ..]"
without_height(ps) == <<ps[1].xy, ps[2].xy, ps[3].xy, ps[4].xy>>

\* Tile.get_points
get_points(tile) == without_height(get_points_with_height(tile))

\* Tile.subdivide, with every child index equal to the parent's
subdivide_keep_index(tile) ==
  LET ind == tile.index
      tr == tile.transform
  IN  IF tile.thick
      THEN <<Tile(TRUE, ind, Compose(tr, mktransform(Dir(5), 10, 1))),
             Tile(TRUE, ind, Compose(tr, mktransform(Phi(Dir(5)), 8, 1))),
             Tile(TRUE, ind, Compose(tr, mktransform(Phi(Dir(5)), 12, 1))),
             Tile(FALSE, ind, Compose(tr, mktransform(Dir(7), 7, 1))),
             Tile(FALSE, ind, Compose(tr, mktransform(Dir(3), 3, 1)))>>
      ELSE <<Tile(TRUE, ind, Compose(tr, mktransform(Zero, 1, 1))),
             Tile(TRUE, ind, Compose(tr, mktransform(Zero, 9, 1))),
             Tile(FALSE, ind,
                  Compose(tr, mktransform(VNeg(InvPhi(One)), 14, 1))),
             Tile(FALSE, ind,
                  Compose(tr, mktransform(VNeg(InvPhi(One)), 6, 1)))>>

\* Tile.subdivide, the thin rule applied to every tile
subdivide_thin_rule(tile) ==
  LET ind == tile.index
      opp == index_opp(tile.index)
      tr == tile.transform
  IN  <<Tile(TRUE, ind, Compose(tr, mktransform(Zero, 1, 1))),
        Tile(TRUE, ind, Compose(tr, mktransform(Zero, 9, 1))),
        Tile(FALSE, opp, Compose(tr, mktransform(VNeg(InvPhi(One)), 14, 1))),
        Tile(FALSE, opp, Compose(tr, mktransform(VNeg(InvPhi(One)), 6, 1)))>>

\* Tile.subdivide.  (0, 2s - 1/(2s)) = i (phi - 1/phi) = i = xi^5,
\* (0, 2s) = i phi, (-c, s) = xi^7, (c, s) = xi^3 with c, s = cos, sin 54;
\* (-2c, 0) = -1/phi with c = cos 72.
subdivide(tile) ==
  LET ind == tile.index
      opp == index_opp(tile.index)
      nei == index_nei(tile.index)
      tr == tile.transform
  IN  IF tile.thick
      THEN <<Tile(TRUE, opp, Compose(tr, mktransform(Dir(5), 10, 1))),
             Tile(TRUE, opp, Compose(tr, mktransform(Phi(Dir(5)), 8, 1))),
             Tile(TRUE, opp, Compose(tr, mktransform(Phi(Dir(5)), 12, 1))),
             Tile(FALSE, nei, Compose(tr, mktransform(Dir(7), 7, 1))),
             Tile(FALSE, nei, Compose(tr, mktransform(Dir(3), 3, 1)))>>
      ELSE <<Tile(TRUE, ind, Compose(tr, mktransform(Zero, 1, 1))),
             Tile(TRUE, ind, Compose(tr, mktransform(Zero, 9, 1))),
             Tile(FALSE, opp,
                  Compose(tr, mktransform(VNeg(InvPhi(One)), 14, 1))),
             Tile(FALSE, opp,
                  Compose(tr, mktransform(VNeg(InvPhi(One)), 6, 1)))>>

\* the children of the tiles ts[lo..hi], in order
RECURSIVE subdivide_range(_, _, _)
subdivide_range(ts, lo, hi) ==
  IF lo > hi THEN <<>>
  ELSE IF lo = hi THEN subdivide(ts[lo])
  ELSE subdivide_range(ts, lo, (lo + hi) \div 2)
         \o subdivide_range(ts, (lo + hi) \div 2 + 1, hi)

\* subdivide_set: the children of every tile, in order
subdivide_set(ts) == subdivide_range(ts, 1, Len(ts))

\* ------------------------------------------------------- world coordinates

\* The seed transform of main, mktransform(0, -400, 0, 430), is the frame in
\* which the vectors are read: world = 430 * z + (0, -400).  A float is
\* modelled in fixed point, 10^5 steps to one world unit.  WorldCos[j + 1] and
\* WorldSin[j + 1] are 430 * 10^5 * cos, sin (18 j degrees), rounded.
WorldCos ==
  <<43000000, 40895430, 34787731, 25274766, 13287731, 0, -13287731, -25274766>>
WorldSin ==
  <<0, 13287731, 25274766, 34787731, 40895430, 43000000, 40895430, 34787731>>
\* the seed's translation, y = -400
SeedY == -40000000

Dot(p, w) ==
  p[1] * w[1] + p[2] * w[2] + p[3] * w[3] + p[4] * w[4]
    + p[5] * w[5] + p[6] * w[6] + p[7] * w[7] + p[8] * w[8]

\* the world coordinates (x, y) of a vector
World(p) == <<Dot(p, WorldCos), Dot(p, WorldSin) + SeedY>>

Abs(x) == IF x < 0 THEN 0 - x ELSE x

\* the midpoint of p[0] and p[2], in world coordinates
midpoint(p) ==
  <<(World(p[1])[1] + World(p[3])[1]) \div 2,
    (World(p[1])[2] + World(p[3])[2]) \div 2>>

\* Tile.center: the midpoint of corners 0 and 2
center(tile) == midpoint(get_points(tile))

\* ----------------------------------------------------------- deduplication

\* EPSILON = 0.0001, in steps of 10^-5
EPSILON == 10

\* closest_point's None
None == -1

\* the (0-based) index of the first of the points hit, or None
first_hit(hits) ==
  IF hits = {} THEN None
  ELSE (CHOOSE j \in hits : \A l \in hits : j <= l) - 1

\* closest_point: the (0-based) index of the first point within EPSILON of the
\* target in L1 distance, or None
closest_point(target, pts) ==
  first_hit({j \in 1..Len(pts) :
               Abs(pts[j][1] - target[1]) + Abs(pts[j][2] - target[2])
                 < EPSILON})

\* "if i is None: unique_tiles.append(tile); unique_tile_centers.append(c)"
unique_append(u, tile, c, i) ==
  IF i = None
  THEN [tiles |-> Append(u.tiles, tile), centers |-> Append(u.centers, c)]
  ELSE u

\* one iteration of the loop "Filter tiles for uniqueness" that looks no
\* center up
unique_step_forgetful(u, tile) ==
  unique_append(u, tile, center(tile), None)

\* one iteration of the loop "Filter tiles for uniqueness": u holds
\* unique_tiles and unique_tile_centers
unique_step(u, tile) ==
  unique_append(u, tile, center(tile), closest_point(center(tile), u.centers))

\* the (x, y) column of the vertex table
point_xys(pts) == [j \in 1..Len(pts) |-> pts[j].xy]

\* the vertex found is recorded on the tile, the tile not on the vertex
vertex_append_one_way(v, xy, tid, i) ==
  IF i = None
  THEN [points |-> Append(v.points, [xy |-> xy, adj |-> <<tid>>]),
        point_indices |-> Append(v.point_indices, Len(v.points))]
  ELSE [points |-> v.points,
        point_indices |-> Append(v.point_indices, i)]

\* "if i is None: .. points.append(..) else: .. points[i][2].append(tile)": v
\* holds the vertex table and the tile's point_indices so far, tid is the tile
\* (its position in tiles, which stands for the reference the code stores)
vertex_append(v, xy, tid, i) ==
  IF i = None
  THEN [points |-> Append(v.points, [xy |-> xy, adj |-> <<tid>>]),
        point_indices |-> Append(v.point_indices, Len(v.points))]
  ELSE [points |-> [v.points EXCEPT ![i + 1].adj = Append(@, tid)],
        point_indices |-> Append(v.point_indices, i)]

\* one iteration of "for (x, y) in tile.get_points()"
vertex_corner(v, xy, tid) ==
  vertex_append(v, xy, tid, closest_point(xy, point_xys(v.points)))

\* "for (x, y) in tile.get_points()" over the four corners ps
vertex_corners(v, ps, tid) ==
  vertex_corner(
    vertex_corner(
      vertex_corner(
        vertex_corner(v, World(ps[1]), tid),
        World(ps[2]), tid),
      World(ps[3]), tid),
    World(ps[4]), tid)

\* one iteration of "for tile in tiles" without tile.point_indices = []
vertex_step_no_reset(pts, tile, tid) ==
  vertex_corners([points |-> pts, point_indices |-> tile.point_indices],
                 get_points(tile), tid)

\* one iteration of "for tile in tiles": the vertex table and the tile's
\* point_indices after the tile's four corners
vertex_step(pts, tile, tid) ==
  vertex_corners([points |-> pts, point_indices |-> <<>>],
                 get_points(tile), tid)

\* ------------------------------------------------------ height constraints

\* An assertion of the solver s over the variables h_0 .. h_(n-1):
\*   [kind |-> "ge", v, c]    h[v] >= c
\*   [kind |-> "le", v, c]    h[v] <= c
\*   [kind |-> "eq", a, b]    h[a] == h[b]
\*   [kind |-> "or", alts]    z3.Or(z3.And(..), z3.And(..)), each And a
\*                            sequence of atoms [a, b, off]: h[a] == h[b] + off
Atom(a, b, off) == [a |-> a, b |-> b, off |-> off]

\* "for i in range(len(points)): s.add(h[i] >= 1, h[i] <= 5)"
domain_constraints_wide(n) ==
  [j \in 1..(2 * n) |->
     IF j % 2 = 1 THEN [kind |-> "ge", v |-> (j - 1) \div 2, c |-> 1]
     ELSE [kind |-> "le", v |-> (j - 1) \div 2, c |-> 5]]

\* "for i in range(len(points)): s.add(h[i] >= 1, h[i] <= 4)"
domain_constraints(n) ==
  [j \in 1..(2 * n) |->
     IF j % 2 = 1 THEN [kind |-> "ge", v |-> (j - 1) \div 2, c |-> 1]
     ELSE [kind |-> "le", v |-> (j - 1) \div 2, c |-> 4]]

\* the two assertions of a tile: thick unpacks point_indices as (bot, right,
\* top, left), thin as (right, top, left, bot)
tile_constraints(tile) ==
  LET p == tile.point_indices
  IN  IF tile.thick
      THEN <<[kind |-> "eq", a |-> p[2], b |-> p[4]],
             [kind |-> "or",
              alts |-> <<<<Atom(p[3], p[2], 1), Atom(p[1], p[2], -1)>>,
                         <<Atom(p[3], p[2], -1), Atom(p[1], p[2], 1)>>>>]>>
      ELSE <<[kind |-> "eq", a |-> p[2], b |-> p[4]],
             [kind |-> "or",
              alts |-> <<<<Atom(p[1], p[2], -1), Atom(p[3], p[2], 1)>>,
                         <<Atom(p[3], p[2], -1), Atom(p[1], p[2], 1)>>>>]>>

\* "for tile in tiles": the assertions of the tiles, in order
all_tile_constraints(ts) ==
  [j \in 1..(2 * Len(ts)) |->
     tile_constraints(ts[(j + 1) \div 2])[2 - (j % 2)]]

\* lines 278-294: everything added to the solver, in order
encode(ts, n) == domain_constraints(n) \o all_tile_constraints(ts)

\* ------------------------------------------------------------- the solver

\* z3 is not part of the repository: it is modelled by its contract.  check()
\* answers sat when the assertions have a model, and model() is then any one
\* of them; it answers unsat when they have none; it may answer unknown.

Max2(x, y) == IF x >= y THEN x ELSE y

\* the largest variable of an assertion
MaxVar(c) ==
  CASE c.kind \in {"ge", "le"} -> c.v
    [] c.kind = "eq" -> Max2(c.a, c.b)
    [] c.kind = "or" ->
         Max2(Max2(Max2(c.alts[1][1].a, c.alts[1][1].b),
                   Max2(c.alts[1][2].a, c.alts[1][2].b)),
              Max2(Max2(c.alts[2][1].a, c.alts[2][1].b),
                   Max2(c.alts[2][2].a, c.alts[2][2].b)))

\* the value of variable h_j in the assignment h
Val(h, j) == h[j + 1]

AtomHolds(x, h) == Val(h, x.a) = Val(h, x.b) + x.off

\* whether the assignment h satisfies the assertion c
Holds(c, h) ==
  CASE c.kind = "ge" -> Val(h, c.v) >= c.c
    [] c.kind = "le" -> Val(h, c.v) <= c.c
    [] c.kind = "eq" -> Val(h, c.a) = Val(h, c.b)
    [] c.kind = "or" ->
         \E j \in 1..Len(c.alts) :
           \A l \in 1..Len(c.alts[j]) : AtomHolds(c.alts[j][l], h)

\* z3's Int is unbounded; the models are searched in a window of integers
\* around the domain the assertions state
Slack == 1
SearchRange == (1 - Slack)..(4 + Slack)

\* the assertions of cs whose largest variable is h_(v-1)
AssertionsAt(cs, v) == {j \in 1..Len(cs) : MaxVar(cs[j]) = v - 1}

\* the assignments of ext that satisfy the assertions here of cs
Satisfying(ext, cs, here) == {h \in ext : \A j \in here : Holds(cs[j], h)}

\* the extensions of the assignments in S to h_0 .. h_(v-1), by a value of
\* h_(v-1), that satisfy every assertion whose largest variable is h_(v-1)
ExtendModels(S, cs, v) ==
  Satisfying({Append(x[1], x[2]) : x \in S \X SearchRange}, cs,
             AssertionsAt(cs, v))

\* S extended by the variables h_(lo-1) .. h_(hi-1), one after the other
RECURSIVE ExtendRange(_, _, _, _)
ExtendOnward(left, cs, lo, hi) ==
  IF left = {} THEN {} ELSE ExtendRange(left, cs, lo, hi)

ExtendRange(S, cs, lo, hi) ==
  IF lo > hi THEN S
  ELSE IF lo = hi THEN ExtendModels(S, cs, lo)
  ELSE ExtendOnward(ExtendRange(S, cs, lo, (lo + hi) \div 2), cs,
                    (lo + hi) \div 2 + 1, hi)

\* the assignments to h_0 .. h_(v-1) that satisfy every assertion over these
\* variables alone; an assignment is the sequence of its values, h_j at j + 1
PartialModels(cs, v) == ExtendRange({<<>>}, cs, 1, v)

\* the models of the assertions cs over n variables
Models(cs, n) == PartialModels(cs, n)

\* ------------------------------------------------------------ rendering

\* draw_tile: the path through the tile's corners and the two stops of its
\* gradient, mkcolor_darkened(.., t.index) and (.., index_opp(t.index))
path(ps) == <<World(ps[1]), World(ps[2]), World(ps[3]), World(ps[4])>>

draw_tile(t) ==
  [path |-> path(get_points(t)),
   thick |-> t.thick,
   stop0 |-> t.index,
   stop1 |-> index_opp(t.index)]

\* the radius of the circle drawn on a vertex, by its number of tiles
radius(adjacent_tiles) == <<4, 6, 8, 10, 12, 14, 16>>[Len(adjacent_tiles)]

\* one tile of output/autogen.scad: its material and the heights of the four
\* points of its polyhedra (doubled)
heights(ps) == <<ps[1].z2, ps[2].z2, ps[3].z2, ps[4].z2>>

scad_tile(t) ==
  [material |-> IF t.thick THEN "green" ELSE "blue",
   z2 |-> heights(get_points_with_height(t))]

\* ----------------------------------------------------------------- state

VARIABLES
  pc,                   \* where main is
  seed,                 \* the seed tile main starts from
  steps,                \* main's steps
  i,                    \* subdivision passes done
  tiles,                \* main's tiles
  k,                    \* tiles done by the running dedup loop
  unique_tiles,         \* main's unique_tiles
  unique_tile_centers,  \* main's unique_tile_centers
  points,               \* main's points: [xy, adj] per vertex
  cons,                 \* the assertions added to the solver s
  verdict,              \* what s.check() answered
  model,                \* m = s.model()
  printed,              \* "sat" or "unsat", as printed
  drawn,                \* the tiles drawn on the surface
  circles,              \* the vertex circles drawn on the surface
  png,                  \* whether output/tiling.png is written
  scad,                 \* the tiles written to output/autogen.scad
  run,                  \* 1, or 2 when deduplication is being run again
  first,                \* the tiles and points of the first deduplication
  qpc,                  \* where the QQuad computation is
  qx,                   \* a QQuad operand
  qy,                   \* a second QQuad operand
  qr,                   \* qx.reciprocal()
  qrr,                  \* qx.reciprocal().reciprocal()
  qprod,                \* qx * qx.reciprocal()
  qdiv,                 \* qy / qx
  qerr,                 \* the exception raised, if any
  spc,                  \* where the call of subdivide on a given tile is
  sthick,               \* the value of the tile's field thick
  sindex,               \* the tile's index
  stransform,           \* the tile's transform
  sresult               \* what the call returned or raised

input == <<seed, steps>>
solver == <<cons, verdict, model, printed>>
output == <<drawn, circles, png, scad>>
rerun == <<run, first>>
tvars ==
  <<pc, input, i, tiles, k, unique_tiles, unique_tile_centers, points,
    solver, output, rerun>>
qvars == <<qpc, qx, qy, qr, qrr, qprod, qdiv, qerr>>
svars == <<spc, sthick, sindex, stransform, sresult>>
vars == <<tvars, qvars, svars>>

\* ------------------------------------------------------------- main()

\* first, before deduplication has run once
NoSnapshot == "none"

\* the seed tiles explored: main's own is Tile(True, 1, ..)
Seeds ==
  {Tile(th, ix, mktransform(Zero, 0, 0)) : th \in BOOLEAN, ix \in IndexRange}

TilingInit(maxsteps) ==
  /\ pc = "subdivide"
  /\ seed \in Seeds
  /\ steps \in 0..maxsteps
  /\ i = 0
  /\ tiles = <<seed>>
  /\ k = 0
  /\ unique_tiles = <<>>
  /\ unique_tile_centers = <<>>
  /\ points = <<>>
  /\ cons = <<>>
  /\ verdict = "none"
  /\ model = <<>>
  /\ printed = ""
  /\ drawn = <<>>
  /\ circles = <<>>
  /\ png = FALSE
  /\ scad = <<>>
  /\ run = 1
  /\ first = NoSnapshot

TilingIdle ==
  /\ pc = "idle"
  /\ seed = Tile(TRUE, 1, mktransform(Zero, 0, 0))
  /\ steps = 0
  /\ i = 0
  /\ tiles = <<>>
  /\ k = 0
  /\ unique_tiles = <<>>
  /\ unique_tile_centers = <<>>
  /\ points = <<>>
  /\ cons = <<>>
  /\ verdict = "none"
  /\ model = <<>>
  /\ printed = ""
  /\ drawn = <<>>
  /\ circles = <<>>
  /\ png = FALSE
  /\ scad = <<>>
  /\ run = 1
  /\ first = NoSnapshot

\* "for i in range(steps): tiles = subdivide_set(tiles)", one pass
Subdivide ==
  /\ pc = "subdivide"
  /\ i < steps
  /\ tiles' = subdivide_set(tiles)
  /\ i' = i + 1
  /\ UNCHANGED <<pc, input, k, unique_tiles, unique_tile_centers, points,
                 solver, output, rerun, qvars, svars>>

\* the passes are done: points, unique_tiles, unique_tile_centers start empty
BeginUnique ==
  /\ pc = "subdivide"
  /\ i = steps
  /\ pc' = "unique"
  /\ k' = 0
  /\ unique_tiles' = <<>>
  /\ unique_tile_centers' = <<>>
  /\ points' = <<>>
  /\ UNCHANGED <<input, i, tiles, solver, output, rerun, qvars, svars>>

\* one iteration of "for tile in tiles" (lines 248-253)
UniqueTile ==
  /\ pc = "unique"
  /\ k < Len(tiles)
  /\ LET u == unique_step([tiles |-> unique_tiles,
                           centers |-> unique_tile_centers], tiles[k + 1])
     IN  /\ unique_tiles' = u.tiles
         /\ unique_tile_centers' = u.centers
  /\ k' = k + 1
  /\ UNCHANGED <<pc, input, i, tiles, points, solver, output, rerun, qvars,
                 svars>>

\* "tiles = unique_tiles"
EndUnique ==
  /\ pc = "unique"
  /\ k = Len(tiles)
  /\ tiles' = unique_tiles
  /\ pc' = "vertex"
  /\ k' = 0
  /\ UNCHANGED <<input, i, unique_tiles, unique_tile_centers, points, solver,
                 output, rerun, qvars, svars>>

\* one iteration of "for tile in tiles" (lines 257-265); tiles and
\* unique_tiles are one list
VertexTile ==
  /\ pc = "vertex"
  /\ k < Len(tiles)
  /\ LET v == vertex_step(points, tiles[k + 1], k)
         ts == [tiles EXCEPT ![k + 1].point_indices = v.point_indices]
     IN  /\ points' = v.points
         /\ tiles' = ts
         /\ unique_tiles' = ts
  /\ k' = k + 1
  /\ UNCHANGED <<pc, input, i, unique_tile_centers, solver, output, rerun,
                 qvars, svars>>

\* Deduplication run again: lines 232-243 start from a fresh vertex table and
\* fresh unique_tiles, on the tile list the first run produced
Rerun ==
  /\ pc = "vertex"
  /\ k = Len(tiles)
  /\ run = 1
  /\ run' = 2
  /\ first' = [tiles |-> tiles, points |-> points]
  /\ pc' = "unique"
  /\ k' = 0
  /\ unique_tiles' = <<>>
  /\ unique_tile_centers' = <<>>
  /\ points' = <<>>
  /\ UNCHANGED <<input, i, tiles, solver, output, qvars, svars>>

\* lines 278-294: the variables and the assertions
Encode ==
  /\ pc = "vertex"
  /\ k = Len(tiles)
  /\ cons' = encode(tiles, Len(points))
  /\ pc' = "solve"
  /\ UNCHANGED <<input, i, tiles, k, unique_tiles, unique_tile_centers,
                 points, verdict, model, printed, output, rerun, qvars, svars>>

\* "if s.check() == z3.sat": print sat, label every tile with the height of the
\* vertex at its point_indices[0]
\* every tile labelled with the height of the vertex at its point_indices[1]
label_second(ts, m) == [j \in 1..Len(ts) |->
                   [ts[j] EXCEPT !.index = Val(m, ts[j].point_indices[2])]]

label(ts, m) == [j \in 1..Len(ts) |->
                   [ts[j] EXCEPT !.index = Val(m, ts[j].point_indices[1])]]

SolveSat ==
  /\ pc = "solve"
  /\ \E m \in Models(cons, Len(points)) :
       /\ verdict' = "sat"
       /\ model' = m
       /\ tiles' = label(tiles, m)
       /\ unique_tiles' = label(tiles, m)
  /\ printed' = "sat"
  /\ pc' = "draw"
  /\ UNCHANGED <<input, i, k, unique_tile_centers, points, cons, output,
                 rerun, qvars, svars>>

\* the answers of s.check() other than sat
NotSat(cs, n) == IF Models(cs, n) = {} THEN {"unsat"} ELSE {"unknown"}

\* "else: print("unsat")"
SolveElse ==
  /\ pc = "solve"
  /\ verdict' \in NotSat(cons, Len(points))
  /\ printed' = "unsat"
  /\ pc' = "draw"
  /\ UNCHANGED <<input, i, tiles, k, unique_tiles, unique_tile_centers,
                 points, cons, model, output, rerun, qvars, svars>>

\* lines 309-321: every tile is drawn, and the vertex circles if steps < 5
Draw ==
  /\ pc = "draw"
  /\ drawn' = [j \in 1..Len(tiles) |-> draw_tile(tiles[j])]
  /\ circles' = IF steps < 5
                THEN [j \in 1..Len(points) |-> radius(points[j].adj)]
                ELSE <<>>
  /\ pc' = "png"
  /\ UNCHANGED <<input, i, tiles, k, unique_tiles, unique_tile_centers,
                 points, solver, png, scad, rerun, qvars, svars>>

\* surface.write_to_png("output/tiling.png")
WritePng ==
  /\ pc = "png"
  /\ png' = TRUE
  /\ pc' = "scad"
  /\ UNCHANGED <<input, i, tiles, k, unique_tiles, unique_tile_centers,
                 points, solver, drawn, circles, scad, rerun, qvars, svars>>

\* lines 329-348: output/autogen.scad
WriteScad ==
  /\ pc = "scad"
  /\ scad' = [j \in 1..Len(tiles) |-> scad_tile(tiles[j])]
  /\ pc' = "done"
  /\ UNCHANGED <<input, i, tiles, k, unique_tiles, unique_tile_centers,
                 points, solver, drawn, circles, png, rerun, qvars, svars>>

\* ------------------------------------------------- fractions and QQuad

\* bounds on the numerators and denominators of the operands tried
MaxNum == 3
MaxDen == 3

RECURSIVE GCD(_, _)
GCD(a, b) == IF b = 0 THEN a ELSE GCD(b, a % b)

\* fractions.Fraction: a pair <<numerator, denominator>> in lowest terms with a
\* positive denominator (d # 0)
Fraction(n, d) ==
  LET g == GCD(Abs(n), Abs(d))
  IN  IF d > 0 THEN <<n \div g, d \div g>>
      ELSE <<(0 - n) \div g, (0 - d) \div g>>

\* Fraction arithmetic; the common factors are taken out before the products,
\* as fractions.py does, the result being the same fraction
FAdd(x, y) ==
  LET g == GCD(x[2], y[2])
  IN  Fraction(x[1] * (y[2] \div g) + y[1] * (x[2] \div g),
               (x[2] \div g) * y[2])
FNeg(x) == <<0 - x[1], x[2]>>
FSub(x, y) == FAdd(x, FNeg(y))
FMul(x, y) ==
  LET g1 == GCD(Abs(x[1]), y[2])
      g2 == GCD(Abs(y[1]), x[2])
  IN  Fraction((x[1] \div g1) * (y[1] \div g2),
               (x[2] \div g2) * (y[2] \div g1))
\* x / y for y # 0
FDiv(x, y) == FMul(x, Fraction(y[2], y[1]))
FInt(n) == <<n, 1>>
FZero == FInt(0)

\* QQuad(a, b, sq): a + b sqrt(sq)
QQuad(a, b, sq) == [a |-> a, b |-> b, sq |-> sq]

\* the result of a call: a value, or the exception raised
Value(v) == [ok |-> TRUE, val |-> v]
Raise(e) == [ok |-> FALSE, err |-> e]

compatible(self, other) == self.sq = other.sq

\* QQuad.mul
mul(self, other) ==
  IF ~compatible(self, other) THEN Raise("AssertionError")
  ELSE Value(QQuad(
         FAdd(FMul(self.a, other.a),
              FMul(FMul(self.b, other.b), FInt(self.sq))),
         FAdd(FMul(self.a, other.b), FMul(self.b, other.a)),
         self.sq))

\* denom without the factor sq
reciprocal_denom_no_sq(self) ==
  FSub(FMul(self.a, self.a), FMul(self.b, self.b))

\* "denom = self.a * self.a - self.b * self.b * self.sq"
reciprocal_denom(self) ==
  FSub(FMul(self.a, self.a), FMul(FMul(self.b, self.b), FInt(self.sq)))

\* QQuad.reciprocal without the sign change of b
reciprocal_no_conjugate(self) ==
  LET denom == reciprocal_denom(self)
  IN  IF denom = FZero THEN Raise("ZeroDivisionError")
      ELSE Value(QQuad(FDiv(self.a, denom), FDiv(self.b, denom), self.sq))

\* QQuad.reciprocal
reciprocal(self) ==
  LET denom == reciprocal_denom(self)
  IN  IF denom = FZero THEN Raise("ZeroDivisionError")
      ELSE Value(QQuad(FDiv(self.a, denom), FDiv(FNeg(self.b), denom),
                       self.sq))

\* QQuad.div: self.mul(other.reciprocal())
div(self, other) ==
  LET r == reciprocal(other)
  IN  IF r.ok THEN mul(self, r.val) ELSE r

\* the operands tried: sq = 5, a and b fractions within the bounds
Fractions ==
  {Fraction(n, d) : n \in (0 - MaxNum)..MaxNum, d \in 1..MaxDen}
QInputs == {QQuad(a, b, 5) : a \in Fractions, b \in Fractions}
\* the dividends tried
QDividends == {QQuad(FInt(a), FInt(b), 5) : a \in 0..1, b \in 0..1}

\* no QQuad yet, no exception
NoValue == [sq |-> 0]
NoError == "none"

QInit ==
  /\ qpc = "start"
  /\ qx \in QInputs
  /\ qy \in QDividends
  /\ qr = NoValue
  /\ qrr = NoValue
  /\ qprod = NoValue
  /\ qdiv = NoValue
  /\ qerr = NoError

QIdle ==
  /\ qpc = "idle"
  /\ qx = QQuad(FZero, FZero, 5)
  /\ qy = QQuad(FZero, FZero, 5)
  /\ qr = NoValue
  /\ qrr = NoValue
  /\ qprod = NoValue
  /\ qdiv = NoValue
  /\ qerr = NoError

\* r = x.reciprocal()
Reciprocal ==
  /\ qpc = "start"
  /\ LET r == reciprocal(qx)
     IN  IF r.ok
         THEN qr' = r.val /\ qpc' = "reciprocal" /\ UNCHANGED qerr
         ELSE qerr' = r.err /\ qpc' = "raised" /\ UNCHANGED qr
  /\ UNCHANGED <<qx, qy, qrr, qprod, qdiv, tvars, svars>>

\* r.reciprocal()
ReciprocalAgain ==
  /\ qpc = "reciprocal"
  /\ LET r == reciprocal(qr)
     IN  IF r.ok
         THEN qrr' = r.val /\ qpc' = "reciprocal2" /\ UNCHANGED qerr
         ELSE qerr' = r.err /\ qpc' = "raised" /\ UNCHANGED qrr
  /\ UNCHANGED <<qx, qy, qr, qprod, qdiv, tvars, svars>>

\* x * r
Mul ==
  /\ qpc = "reciprocal2"
  /\ LET r == mul(qx, qr)
     IN  IF r.ok
         THEN qprod' = r.val /\ qpc' = "mul" /\ UNCHANGED qerr
         ELSE qerr' = r.err /\ qpc' = "raised" /\ UNCHANGED qprod
  /\ UNCHANGED <<qx, qy, qr, qrr, qdiv, tvars, svars>>

\* y / x
Div ==
  /\ qpc = "start"
  /\ LET r == div(qy, qx)
     IN  IF r.ok
         THEN qdiv' = r.val /\ qpc' = "div" /\ UNCHANGED qerr
         ELSE qerr' = r.err /\ qpc' = "div raised" /\ UNCHANGED qdiv
  /\ UNCHANGED <<qx, qy, qr, qrr, qprod, tvars, svars>>

\* ------------------------------------- subdivide on a tile of any shape

\* Tile.thick is annotated bool, and nothing enforces it: the field holds
\* whatever value the tile was made with.  A value is its type and its repr.
PyValue(type, repr) == [type |-> type, repr |-> repr]

\* the values of thick tried: the two shapes, and values that are neither
ShapeValues ==
  {PyValue("bool", "True"), PyValue("bool", "False"),
   PyValue("NoneType", "None"),
   PyValue("int", "0"), PyValue("int", "2"),
   PyValue("str", ""), PyValue("str", "hexagon"),
   PyValue("ndarray", "[1 2]")}

\* "if self.thick:": the truth value Python tests.  None, zero and the empty
\* string are false, other values true; an array of several elements has no
\* truth value, and testing it raises ValueError.
truth(v) ==
  IF v.type = "ndarray" THEN Raise("ValueError")
  ELSE Value(v.repr \notin {"False", "None", "0", ""})

\* Tile(thick, index, transform).subdivide(), thick being any value
subdivide_any(thick, index, transform) ==
  IF truth(thick).ok
  THEN Value(subdivide(Tile(truth(thick).val, index, transform)))
  ELSE truth(thick)

\* the transforms of the tiles tried
ShapeTransforms == {mktransform(Zero, r, 0) : r \in 0..3}

NoResult == Raise("not called")

ShapeInit ==
  /\ spc = "start"
  /\ sthick \in ShapeValues
  /\ sindex \in IndexRange
  /\ stransform \in ShapeTransforms
  /\ sresult = NoResult

ShapeIdle ==
  /\ spc = "idle"
  /\ sthick = PyValue("bool", "True")
  /\ sindex = 1
  /\ stransform = mktransform(Zero, 0, 0)
  /\ sresult = NoResult

\* the call returns its children, or raises
SubdivideAny ==
  /\ spc = "start"
  /\ sresult' = subdivide_any(sthick, sindex, stransform)
  /\ spc' = IF sresult'.ok THEN "returned" ELSE "raised"
  /\ UNCHANGED <<sthick, sindex, stransform, tvars, qvars>>

\* ------------------------------------------------------- specifications

\* main(), from the seed to the two output files
Init == TilingInit(MaxDepth) /\ QIdle /\ ShapeIdle
Next ==
  \/ Subdivide
  \/ BeginUnique
  \/ UniqueTile
  \/ EndUnique
  \/ VertexTile
  \/ Encode
  \/ SolveSat
  \/ SolveElse
  \/ Draw
  \/ WritePng
  \/ WriteScad
Spec == Init /\ [][Next]_vars

\* the subdivision passes alone, to a greater depth
InitGrow == TilingInit(MaxSteps) /\ QIdle /\ ShapeIdle
NextGrow == Subdivide
SpecGrow == InitGrow /\ [][NextGrow]_vars

\* deduplication, and deduplication again on its own result
NextRerun ==
  \/ Subdivide
  \/ BeginUnique
  \/ UniqueTile
  \/ EndUnique
  \/ VertexTile
  \/ Rerun
SpecRerun == Init /\ [][NextRerun]_vars

\* QQuad arithmetic on the operands of QInputs
InitQ == TilingIdle /\ QInit /\ ShapeIdle
NextQ ==
  \/ Reciprocal
  \/ ReciprocalAgain
  \/ Mul
  \/ Div
SpecQ == InitQ /\ [][NextQ]_vars

\* subdivide called on tiles of the shapes of ShapeValues
InitShape == TilingIdle /\ QIdle /\ ShapeInit
NextShape == SubdivideAny
SpecShape == InitShape /\ [][NextShape]_vars

\* ------------------------------------------------------------ properties

ThickCount(ts) == Cardinality({j \in 1..Len(ts) : ts[j].thick})
ThinCount(ts) == Cardinality({j \in 1..Len(ts) : ~ts[j].thick})

\* C4: for every index i in {1,2,3,4}, the index of every tile among them,
\* index_opp(index_opp(i)) = i and index_opp(i) # i
index_opp_involution ==
  /\ \A ix \in IndexRange :
       index_opp(index_opp(ix)) = ix /\ index_opp(ix) # ix
  /\ \A j \in 1..Len(tiles) :
       /\ tiles[j].index \in IndexRange
       /\ index_opp(index_opp(tiles[j].index)) = tiles[j].index
       /\ index_opp(tiles[j].index) # tiles[j].index

\* the four indices are all carried by tiles that subdivision produced
index_opp_involution_witness ==
  /\ i >= 1
  /\ {tiles[j].index : j \in 1..Len(tiles)} = IndexRange

\* C5 as stated: index_opp is the pairing (1,4) and (2,3), on the index of
\* every tile
opp_pairs_1_4_and_2_3 ==
  \A j \in 1..Len(tiles) :
    index_opp(tiles[j].index) = <<4, 3, 2, 1>>[tiles[j].index]

\* C5, amended: index_opp is the pairing (1,3) and (2,4): index_opp(1) = 3,
\* index_opp(3) = 1, index_opp(2) = 4 and index_opp(4) = 2, on the index of
\* every tile, and the thick children of a thick seed carry it
opp_pairs_1_3_and_2_4 ==
  /\ \A j \in 1..Len(tiles) :
       /\ tiles[j].index = 1 => index_opp(tiles[j].index) = 3
       /\ tiles[j].index = 3 => index_opp(tiles[j].index) = 1
       /\ tiles[j].index = 2 => index_opp(tiles[j].index) = 4
       /\ tiles[j].index = 4 => index_opp(tiles[j].index) = 2
  /\ (i = 1 /\ seed.thick) =>
       tiles[1].index = <<3, 4, 1, 2>>[seed.index]

\* a thick seed of index 1 subdivided once: its first child has index 3
opp_pairs_witness ==
  /\ i = 1
  /\ seed.thick
  /\ seed.index = 1
  /\ tiles[1].index = 3
  /\ index_opp(4) = 2

\* the (thick, thin) counts of the generations of a thick seed
GrowthTable == <<<<1, 0>>, <<3, 2>>, <<13, 10>>, <<59, 46>>, <<269, 210>>>>

\* C3: subdivide of a thick tile returns 3 thick and 2 thin children, of a thin
\* tile 2 thick and 2 thin; n passes over a thick seed give the (thick, thin)
\* counts (1,0), (3,2), (13,10), (59,46), (269,210) for n = 0..4, in total
\* 1, 5, 23, 105, 479; n = 0 leaves the seed list unchanged
growth_law ==
  /\ \A j \in 1..Len(tiles) :
       /\ ThickCount(subdivide(tiles[j])) = IF tiles[j].thick THEN 3 ELSE 2
       /\ ThinCount(subdivide(tiles[j])) = 2
       /\ Len(subdivide(tiles[j])) = IF tiles[j].thick THEN 5 ELSE 4
  /\ (seed.thick /\ i <= 4) =>
       /\ <<ThickCount(tiles), ThinCount(tiles)>> = GrowthTable[i + 1]
       /\ Len(tiles) = <<1, 5, 23, 105, 479>>[i + 1]
  /\ i = 0 => tiles = <<seed>>

\* the fourth generation of a thick seed
growth_law_witness ==
  /\ seed.thick
  /\ i = 4
  /\ Len(tiles) = 479
  /\ ThickCount(tiles) = 269

\* the child index rule for the parent t and its children c
ChildRule(t, c) ==
  IF t.thick
  THEN /\ Len(c) = 5
       /\ \A l \in 1..3 : c[l].thick /\ c[l].index = index_opp(t.index)
       /\ \A l \in 4..5 :
            ~c[l].thick /\ c[l].index = <<2, 3, 2, 3>>[t.index]
  ELSE /\ Len(c) = 4
       /\ \A l \in 1..2 : c[l].thick /\ c[l].index = t.index
       /\ \A l \in 3..4 : ~c[l].thick /\ c[l].index = index_opp(t.index)

\* C6: a thick parent of index i has, in order, three thick children of index
\* opp(i) and two thin children of index nei(i), nei being 1 -> 2, 2 -> 3,
\* 3 -> 2, 4 -> 3; a thin parent two thick children of index i and two thin
\* children of index opp(i); every tile of every generation has an index in
\* 1..4
child_index_rule ==
  \A j \in 1..Len(tiles) :
    /\ tiles[j].index \in 1..4
    /\ ChildRule(tiles[j], subdivide(tiles[j]))
    /\ \A l \in 1..Len(subdivide(tiles[j])) :
         subdivide(tiles[j])[l].index \in 1..4

\* a generation that subdivision produced, with parents of both shapes and of
\* all four indices
child_index_rule_witness ==
  /\ i >= 1
  /\ \A th \in BOOLEAN, ix \in IndexRange :
       \E j \in 1..Len(tiles) : tiles[j].thick = th /\ tiles[j].index = ix

\* C1: when the solver call reports unsat, nothing is output: no tile is
\* drawn, no PNG image and no SCAD export is written
unsat_no_output ==
  printed = "unsat" =>
    /\ pc \notin {"png", "scad", "done"}
    /\ drawn = <<>>
    /\ circles = <<>>
    /\ ~png
    /\ scad = <<>>

\* the shape clause of the tile t on the heights h, thick with point_indices
\* (bot, right, top, left), thin with (right, top, left, bottom)
ShapeClause(t, h) ==
  IF t.thick
  THEN /\ Val(h, t.point_indices[2]) = Val(h, t.point_indices[4])
       /\ \/ /\ Val(h, t.point_indices[3]) = Val(h, t.point_indices[2]) + 1
             /\ Val(h, t.point_indices[1]) = Val(h, t.point_indices[2]) - 1
          \/ /\ Val(h, t.point_indices[3]) = Val(h, t.point_indices[2]) - 1
             /\ Val(h, t.point_indices[1]) = Val(h, t.point_indices[2]) + 1
  ELSE /\ Val(h, t.point_indices[2]) = Val(h, t.point_indices[4])
       /\ \/ /\ Val(h, t.point_indices[1]) = Val(h, t.point_indices[2]) - 1
             /\ Val(h, t.point_indices[3]) = Val(h, t.point_indices[2]) + 1
          \/ /\ Val(h, t.point_indices[3]) = Val(h, t.point_indices[2]) - 1
             /\ Val(h, t.point_indices[1]) = Val(h, t.point_indices[2]) + 1

\* C2: in every model the solver can return for the encoded system, every
\* vertex height is in 1..4 and every deduplicated tile satisfies the clause
\* of its shape on the heights of its four point_indices
constraint_soundness ==
  verdict = "sat" =>
    /\ Len(model) = Len(points)
    /\ \A j \in 1..Len(points) : Val(model, j - 1) \in 1..4
    /\ \A j \in 1..Len(tiles) :
         /\ Len(tiles[j].point_indices) = 4
         /\ \A l \in 1..4 : tiles[j].point_indices[l] \in 0..(Len(points) - 1)
         /\ ShapeClause(tiles[j], model)

\* a model returned for a tiling with tiles of both shapes
constraint_soundness_witness ==
  /\ verdict = "sat"
  /\ pc = "draw"
  /\ \E j \in 1..Len(tiles) : tiles[j].thick
  /\ \E j \in 1..Len(tiles) : ~tiles[j].thick
  /\ Len(points) > 4

\* whether two centroids are within tolerance, in L1 distance
Close(c, d) == Abs(c[1] - d[1]) + Abs(c[2] - d[2]) < EPSILON

\* the first position of t in ts, or 0
FirstAt(ts, t) ==
  IF \E j \in 1..Len(ts) : ts[j] = t
  THEN CHOOSE j \in 1..Len(ts) : ts[j] = t /\ \A l \in 1..(j - 1) : ts[l] # t
  ELSE 0

\* the m-th kept tile is the input tile at position j, later in the input than
\* the kept tile before it, and its centroid is within tolerance of no
\* centroid kept before
KeptRule(m, j) ==
  /\ j \in 1..k
  /\ unique_tile_centers[m] = center(tiles[j])
  /\ m > 1 => FirstAt(tiles, unique_tiles[m - 1]) < j
  /\ \A l \in 1..(m - 1) :
       ~Close(unique_tile_centers[l], unique_tile_centers[m])

\* the tile just gone through, of centroid c, was kept exactly when c is
\* within tolerance of no centroid kept before it
LastRule(c, kept) ==
  kept <=>
    ~\E m \in 1..(Len(unique_tile_centers) - (IF kept THEN 1 ELSE 0)) :
        Close(c, unique_tile_centers[m])

\* C7: the surviving tiles are a subsequence of the input in input order; a
\* tile is dropped exactly when its centroid is at L1 distance < 1e-4 of the
\* centroid of an earlier kept tile; the centroids of two surviving tiles are
\* at L1 distance >= 1e-4
first_occurrence_wins ==
  pc = "unique" =>
    /\ Len(unique_tile_centers) = Len(unique_tiles)
    /\ Len(unique_tiles) <= k
    /\ \A m \in 1..Len(unique_tiles) :
         KeptRule(m, FirstAt(tiles, unique_tiles[m]))
    /\ k >= 1 =>
         LastRule(center(tiles[k]),
                  /\ Len(unique_tiles) >= 1
                  /\ FirstAt(tiles, unique_tiles[Len(unique_tiles)]) = k)

\* the loop is over and has dropped tiles
first_occurrence_wins_witness ==
  /\ pc = "unique"
  /\ run = 1
  /\ k = Len(tiles)
  /\ Len(unique_tiles) > 1
  /\ Len(unique_tiles) < Len(tiles)

\* C8: deduplication run again, with a fresh vertex table, on the tile list
\* that deduplication produced removes no tile and yields the same number of
\* vertices, the same point_indices on every tile and the same adjacency list
\* for every vertex
dedup_idempotent ==
  run = 2 =>
    /\ pc = "unique" =>
         /\ Len(tiles) = Len(first.tiles)
         /\ Len(unique_tiles) = k
    /\ (pc = "vertex" /\ k = Len(tiles)) =>
         /\ Len(tiles) = Len(first.tiles)
         /\ Len(points) = Len(first.points)
         /\ \A j \in 1..Len(tiles) :
              tiles[j].point_indices = first.tiles[j].point_indices
         /\ \A j \in 1..Len(points) : points[j].adj = first.points[j].adj
         /\ tiles = first.tiles
         /\ points = first.points

\* the second run is over, on a list from which the first had dropped tiles
dedup_idempotent_witness ==
  /\ run = 2
  /\ pc = "vertex"
  /\ k = Len(tiles)
  /\ i = 2
  /\ Len(tiles) < 23
  /\ Len(points) > 4

IsZero(x) == x.a = FZero /\ x.b = FZero

\* C9: for every nonzero element a of Q(sqrt 5), a.reciprocal().reciprocal()
\* equals a, and a * a.reciprocal() has rational part 1 and sqrt part 0
reciprocal_round_trip ==
  /\ ~IsZero(qx) => qpc \notin {"raised"}
  /\ qpc \in {"reciprocal2", "mul"} => qrr = qx
  /\ qpc = "mul" => qprod = QQuad(FInt(1), FZero, 5)

\* the round trip and the product are done, for an element with rational and
\* sqrt part both fractions that are no integers
reciprocal_round_trip_witness ==
  /\ qpc = "mul"
  /\ qx.a[2] > 1
  /\ qx.b[2] > 1
  /\ qx.a # qx.b
  /\ qprod.a = FInt(1)

\* C10: reciprocal(), and div by the element, raise ZeroDivisionError and
\* return no value exactly when the element is zero; for every nonzero element
\* they return a value without error
reciprocal_zero_raises ==
  /\ qpc = "reciprocal" => ~IsZero(qx) /\ qr # NoValue /\ qerr = NoError
  /\ qpc = "raised" =>
       IsZero(qx) /\ qr = NoValue /\ qerr = "ZeroDivisionError"
  /\ qpc = "div" => ~IsZero(qx) /\ qdiv # NoValue /\ qerr = NoError
  /\ qpc = "div raised" =>
       IsZero(qx) /\ qdiv = NoValue /\ qerr = "ZeroDivisionError"

\* the division of a nonzero element by zero has raised
reciprocal_zero_raises_witness ==
  /\ qpc = "div raised"
  /\ IsZero(qx)
  /\ ~IsZero(qy)
  /\ qerr = "ZeroDivisionError"

\* C11: subdividing a tile whose shape is neither thick nor thin ends in an
\* error and returns no children
malformed_shape_is_fatal ==
  (spc \in {"returned", "raised"} /\ sthick.type # "bool") =>
    /\ spc = "raised"
    /\ ~sresult.ok

\* how many times x occurs in the sequence q
Occurrences(q, x) == Cardinality({l \in 1..Len(q) : q[l] = x})

\* the tile at position j has been through the vertex loop: it has 4
\* point_indices, each a valid index into the table, whose position is
\* within tolerance of the corner at the same boundary position
TileIndexed(j, corners) ==
  /\ Len(tiles[j].point_indices) = 4
  /\ \A l \in 1..4 :
       /\ tiles[j].point_indices[l] \in 0..(Len(points) - 1)
       /\ Close(points[tiles[j].point_indices[l] + 1].xy, World(corners[l]))

\* the vertex table between and after the iterations of the vertex loop, k
\* tiles being through it
VertexTableConsistent ==
  pc \in {"vertex", "solve", "draw", "png", "scad", "done"} =>
    /\ \A j \in 1..k : TileIndexed(j, get_points(tiles[j]))
    /\ \A j \in 1..Len(tiles), v \in 1..Len(points) :
         Occurrences(points[v].adj, j - 1) =
           IF j <= k THEN Occurrences(tiles[j].point_indices, v - 1) ELSE 0
    /\ \A v \in 1..Len(points) : Len(points[v].adj) >= 1
    /\ \A v \in 1..Len(points), w \in 1..Len(points) :
         v # w => ~Close(points[v].xy, points[w].xy)

\* a step leaves every vertex of the table where it is, and its adjacency
\* list a prefix of the new one
VertexTableAppendOnly ==
  /\ Len(points') >= Len(points)
  /\ \A v \in 1..Len(points) :
       /\ points'[v].xy = points[v].xy
       /\ Len(points'[v].adj) >= Len(points[v].adj)
       /\ SubSeq(points'[v].adj, 1, Len(points[v].adj)) = points[v].adj

\* C12: after each tile is processed it has exactly 4 point_indices in
\* boundary order, each a valid index into the vertex table whose position is
\* within tolerance of that corner; the table is append-only, so indices
\* recorded earlier stay valid and keep their position; tile t occurs in vertex
\* i's adjacency list as many times as i occurs in t.point_indices; every
\* vertex has an adjacent tile; two vertices are at L1 distance >= 1e-4
vertex_table_consistent ==
  []VertexTableConsistent /\ [][VertexTableAppendOnly]_vars

\* the vertex loop is over on a tiling with a vertex that three tiles share
vertex_table_consistent_witness ==
  /\ pc = "vertex"
  /\ k = Len(tiles)
  /\ Len(tiles) > 5
  /\ \E v \in 1..Len(points) : Len(points[v].adj) >= 3
  /\ \E j \in 1..Len(tiles) : tiles[j].point_indices[1] # 4 * (j - 1)

\* the tile t, labelled, agrees with the heights h: its index is the height at
\* its point_indices[0], and the (doubled) heights z2 it emits, index, mid,
\* index_opp(index), mid, are the heights at its point_indices 0, 1, 2, 3
LabelAgrees(t, z2, h) ==
  /\ t.index = Val(h, t.point_indices[1])
  /\ z2 = <<2 * t.index, t.index + index_opp(t.index),
            2 * index_opp(t.index), t.index + index_opp(t.index)>>
  /\ \A l \in 1..4 : z2[l] = 2 * Val(h, t.point_indices[l])

\* C13: after a sat result, every tile's index is the solved height of the
\* vertex at its boundary position 0, and the four heights it then emits from
\* get_points_with_height (index, mid, index_opp(index), mid) are the solved
\* heights of the vertices at its point_indices 0, 1, 2, 3, for every model
\* and for thick and thin tiles
labeling_agrees ==
  verdict = "sat" =>
    \A j \in 1..Len(tiles) :
      LabelAgrees(tiles[j], heights(get_points_with_height(tiles[j])), model)

\* a labelled tiling with a thin tile of index 1 and thick tiles of two
\* different indices
labeling_agrees_witness ==
  /\ verdict = "sat"
  /\ printed = "sat"
  /\ i = 2
  /\ \E j \in 1..Len(tiles) : ~tiles[j].thick /\ tiles[j].index = 1
  /\ \E j \in 1..Len(tiles), l \in 1..Len(tiles) :
       tiles[j].thick /\ tiles[l].thick /\ tiles[j].index # tiles[l].index

=============================================================================
